---- MODULE Spec2Model ----
(***************************************************************************)
(* URL shortener: the in-memory URLStore (app/models.py), the code         *)
(* generator and the validators (app/utils.py) and the three request       *)
(* handlers that use them (app/main.py).                                   *)
(*                                                                         *)
(* A Python str is a sequence of one-character strings; a character that   *)
(* is not ASCII is written by its code point ("U+00E9").  A JSON value is  *)
(* a record tagged with its Python type.  A dict held by the store is an   *)
(* object of `heap`, and the store maps a short code to the object's       *)
(* index, so that a reference returned by get_url keeps naming the same    *)
(* dict after the key has been overwritten.                                *)
(***************************************************************************)
EXTENDS Integers, Sequences, FiniteSets, TLC

(* ------------------------------------------------------------------ *)
(* Bounds of the exploration                                            *)
(* ------------------------------------------------------------------ *)

\* request-handling threads running against the one store
NumThreads == 2
\* outcomes of random.choice explored for the last character of a code
NumChoices == 2
\* mutations of the store explored: save_url calls plus clicks counted
MaxWrites == 3
\* characters after the scheme in the URLs the validator is called with
MaxTail == 3
\* characters beyond code_length in the codes the validator is called with
MaxExtra == 2

(* ------------------------------------------------------------------ *)
(* Program constants                                                    *)
(* ------------------------------------------------------------------ *)

\* utils.py:7  length: int = 6
default_length == 6
\* utils.py:12
max_attempts == 100
\* utils.py:37  len(short_code) != 6
code_length == 6

Lowercase == <<"a","b","c","d","e","f","g","h","i","j","k","l","m",
               "n","o","p","q","r","s","t","u","v","w","x","y","z">>
Uppercase == <<"A","B","C","D","E","F","G","H","I","J","K","L","M",
               "N","O","P","Q","R","S","T","U","V","W","X","Y","Z">>
Digits == <<"0","1","2","3","4","5","6","7","8","9">>

\* string.ascii_letters + string.digits
chars == Lowercase \o Uppercase \o Digits

Range(s) == {s[i] : i \in DOMAIN s}

(* ------------------------------------------------------------------ *)
(* str helpers                                                          *)
(* ------------------------------------------------------------------ *)

\* the characters str.strip() removes and the pattern's \s matches
\* (U+000B is the vertical tab, U+00A0 the no-break space)
Whitespace == {" ", "\t", "\n", "\r", "\f", "U+000B", "U+00A0"}

\* characters outside ASCII for which str.isalnum() is true
UnicodeAlnum == {"U+00E9", "U+0663"}

\* the characters str.isalnum() accepts
Alnum == Range(chars) \cup UnicodeAlnum

IsAlnumChar(c) == c \in Alnum

\* str.isalnum(): non-empty and every character alphanumeric
isalnum(s) == Len(s) > 0 /\ \A i \in 1..Len(s) : IsAlnumChar(s[i])

\* re.IGNORECASE on the scheme's letters; in a str pattern the long s
\* (U+017F) also matches "s"
Lower(c) ==
    IF \E i \in 1..26 : Uppercase[i] = c
    THEN Lowercase[CHOOSE i \in 1..26 : Uppercase[i] = c]
    ELSE IF c = "U+017F" THEN "s" ELSE c

RECURSIVE LStrip(_)
LStrip(s) == IF s # <<>> /\ Head(s) \in Whitespace THEN LStrip(Tail(s)) ELSE s

RECURSIVE RStrip(_)
RStrip(s) ==
    IF s # <<>> /\ s[Len(s)] \in Whitespace
    THEN RStrip(SubSeq(s, 1, Len(s) - 1))
    ELSE s

\* str.strip()
strip(s) == RStrip(LStrip(s))

\* s begins with prefix p, letters compared without case
StartsWithIgnoreCase(s, p) ==
    /\ Len(s) >= Len(p)
    /\ \A i \in 1..Len(p) : Lower(s[i]) = p[i]

Drop(s, n) == SubSeq(s, n + 1, Len(s))

Schemes == { <<"h","t","t","p",":","/","/">>,
             <<"h","t","t","p","s",":","/","/">>,
             <<"f","t","p",":","/","/">> }

\* length of the longest prefix of s without whitespace: what [^\s]* takes
RECURSIVE NonSpaceRun(_)
NonSpaceRun(s) ==
    IF s = <<>> \/ Head(s) \in Whitespace THEN 0 ELSE 1 + NonSpaceRun(Tail(s))

\* r matches  [^\s/$.?#].[^\s]*$  from its first character
MatchesTail(r) ==
    /\ Len(r) >= 2
    /\ r[1] \notin Whitespace \cup {"/", "$", ".", "?", "#"}
    /\ r[2] # "\n"
    /\ LET left == Drop(Drop(r, 2), NonSpaceRun(Drop(r, 2)))
       IN  left = <<>> \/ left = <<"\n">>

\* url_pattern.match(s) for ^(https?|ftp)://[^\s/$.?#].[^\s]*$
PatternMatch(s) ==
    \E p \in Schemes : StartsWithIgnoreCase(s, p) /\ MatchesTail(Drop(s, Len(p)))

\* a JSON value as Python sees it: a record tagged with its type
PyStr(s) == [type |-> "str", val |-> s]
PyInt(n) == [type |-> "int", val |-> n]
PyNone == [type |-> "NoneType"]

\* `not url`: None, the empty string and zero are falsy
Falsy(v) ==
    \/ v.type = "NoneType"
    \/ v.type = "str" /\ v.val = <<>>
    \/ v.type = "int" /\ v.val = 0

\* a validation that only refuses what is empty or no string
is_valid_url_nonempty(url) == ~Falsy(url) /\ url.type = "str"

is_valid_url(url) ==
    IF Falsy(url) \/ url.type # "str"
    THEN FALSE
    ELSE PatternMatch(strip(url.val))

\* a format check that wants digits only
validate_short_code_digits(short_code) ==
    /\ Len(short_code) = code_length
    /\ \A i \in 1..Len(short_code) : \E k \in 1..10 : Digits[k] = short_code[i]

validate_short_code(short_code) ==
    IF short_code = <<>> \/ Len(short_code) # code_length
    THEN FALSE
    ELSE isalnum(short_code)

(* ------------------------------------------------------------------ *)
(* Code generation                                                      *)
(* ------------------------------------------------------------------ *)

\* the outcomes of random.choice(chars) explored for position i of `length`:
\* every position but the last draws chars[1], the last one of the first
\* NumChoices characters
RandomChoice(i, length) ==
    IF i = length THEN {chars[k] : k \in 1..NumChoices} ELSE {chars[1]}

\* ''.join(random.choice(chars) for _ in range(length))
RECURSIVE Join(_, _)
Join(i, length) ==
    IF i > length
    THEN {<<>>}
    ELSE {<<c>> \o rest : c \in RandomChoice(i, length), rest \in Join(i + 1, length)}

RandomCodes(length) == Join(1, length)

\* existing_codes: None or a set of codes
NoneSet == [isNone |-> TRUE, codes |-> {}]
SetOf(S) == [isNone |-> FALSE, codes |-> S]

\* the membership test inverted
UnusedInverted(code, existing_codes) ==
    existing_codes.isNone \/ code \in existing_codes.codes

\* utils.py:15  existing_codes is None or code not in existing_codes
Unused(code, existing_codes) ==
    existing_codes.isNone \/ code \notin existing_codes.codes

\* an outcome of generate_short_code: the code returned or the exception
\* raised, with the number of candidates drawn and of those found in use
Returned(code, i) == [raised |-> FALSE, code |-> code, draws |-> i + 1, collisions |-> i]
Raised(i) == [raised |-> TRUE, code |-> <<>>, draws |-> i, collisions |-> i]

\* iteration i of `for _ in range(max_attempts)`: of the candidates that can
\* be drawn, one not in use is returned and one in use falls to the next
\* iteration
Iteration(i, drawn, existing_codes) ==
    LET free == {code \in drawn : Unused(code, existing_codes)}
    IN  [outs |-> {Returned(code, i) : code \in free}, falls |-> drawn # free]

\* iterations lo .. hi-1 of the loop, run in order (the range is halved to
\* keep the evaluation shallow): the outcomes that return from one of them,
\* and whether the loop can fall through all of them
RECURSIVE Iterations(_, _, _, _)
Iterations(lo, hi, drawn, existing_codes) ==
    IF hi <= lo
    THEN [outs |-> {}, falls |-> TRUE]
    ELSE IF hi = lo + 1
    THEN Iteration(lo, drawn, existing_codes)
    ELSE LET mid == (lo + hi) \div 2
             first == Iterations(lo, mid, drawn, existing_codes)
         IN  IF first.falls
             THEN LET rest == Iterations(mid, hi, drawn, existing_codes)
                  IN  [outs |-> first.outs \cup rest.outs, falls |-> rest.falls]
             ELSE first

\* a loop that runs once more
LoopRangeOneMore == max_attempts + 1

\* the number of iterations of the loop
LoopRange == max_attempts

\* the outcomes of generate_short_code(length, existing_codes): a return
\* from the loop, or the exception raised after it
generate_short_code(length, existing_codes) ==
    LET loop == Iterations(0, LoopRange, RandomCodes(length), existing_codes)
    IN  loop.outs \cup (IF loop.falls THEN {Raised(LoopRange)} ELSE {})

\* what a caller sees of them: the exception, or the code returned
Results(outcomes) == {[raised |-> out.raised, code |-> out.code] : out \in outcomes}

(* ------------------------------------------------------------------ *)
(* State                                                                *)
(* ------------------------------------------------------------------ *)

VARIABLES
    urls,       \* URLStore.urls: short code -> index in heap of its dict
    heap,       \* the dicts {url, clicks, created_at} ever stored, by index
    lock,       \* URLStore.lock: 0 when free, else the thread holding it
    now,        \* the last reading of datetime.utcnow()
    th,         \* per thread: the position in its handler and its locals
    response,   \* the response sent (or value returned) by the last step, if any
    hits,       \* history: per dict, the increment_clicks calls that returned True
    lastWrite,  \* history: the last mutation of the store
    issued,     \* history: the (short_code, url, dict) triples answered 201
    saved       \* history: per save_url call, the dict stored and what was written

vars == <<urls, heap, lock, now, th, response, hits, lastWrite, issued, saved>>

Threads == 1..NumThreads

\* the threads that serve HTTP requests: the service is explored with two
\* requests in flight, the store's own methods with NumThreads callers
Handlers == {1, 2}

\* datetime.isoformat(): the rendering of a clock reading
isoformat(t) == <<"iso", t>>

NoBody == [url |-> PyNone, clicks |-> 0, created_at |-> <<>>]

\* a thread between requests; `wrote` (history) tells whether the request
\* has mutated the store, `existed` whether the code was a key of the store
\* when the call began
Idle ==
    [pc |-> "idle", req |-> "none", original_url |-> PyNone, short_code |-> <<>>,
     url_data |-> 0, clicks |-> 0, target |-> 0, existed |-> FALSE, wrote |-> FALSE]

NoGen == [length |-> 0, existing_codes |-> NoneSet, out |-> Raised(0)]

NoResponse ==
    [req |-> "none", status |-> 0, error |-> "", original_url |-> PyNone,
     short_code |-> <<>>, url_data |-> 0, target |-> 0, body |-> NoBody,
     result |-> "None", existed |-> FALSE, wrote |-> FALSE, gen |-> NoGen]

\* the answer of a request with locals r
Answer(r, status, error, body, result) ==
    [NoResponse EXCEPT
        !.req = r.req, !.status = status, !.error = error,
        !.original_url = r.original_url, !.short_code = r.short_code,
        !.url_data = r.url_data, !.target = r.target,
        !.body = body, !.result = result,
        !.existed = r.existed, !.wrote = r.wrote]

\* the request of thread t, with locals r, ends: its answer is sent
Respond(t, r, status, error, body, result) ==
    /\ th' = [th EXCEPT ![t] = Idle]
    /\ response' = Answer(r, status, error, body, result)

\* the request of thread t goes on with locals r
Continue(t, r) ==
    /\ th' = [th EXCEPT ![t] = r]
    /\ response' = NoResponse

RECURSIVE SumClicks(_)
SumClicks(h) == IF h = <<>> THEN 0 ELSE Head(h).clicks + SumClicks(Tail(h))

\* threads about to mutate the store
Writers == {t \in Threads : th[t].pc \in {"save_url", "increment_clicks", "inc_store"}}

\* a further mutation is explored while fewer than MaxWrites are made or due
MayWrite == Len(heap) + SumClicks(heap) + Cardinality(Writers) < MaxWrites

Init ==
    /\ urls = [c \in {} |-> 0]
    /\ heap = <<>>
    /\ lock = 0
    /\ now = 0
    /\ th = [t \in Threads |-> Idle]
    /\ response = NoResponse
    /\ hits = <<>>
    /\ lastWrite = [kind |-> "none", obj |-> 0, code |-> <<>>, url |-> PyNone]
    /\ issued = {}
    /\ saved = {}

(* ------------------------------------------------------------------ *)
(* URLStore                                                             *)
(* ------------------------------------------------------------------ *)

\* a lock that does not exclude: it is taken whoever holds it
AcquireHeld(t) == lock' = t

\* threading.Lock.acquire, entering `with self.lock:`: taken only when free
Acquire(t) == lock = 0 /\ lock' = t

\* a `with` body left without the lock being released
ReleaseKept(t) == lock' = lock

\* threading.Lock.release, leaving `with self.lock:`
Release(t) == lock' = 0

\* the reading datetime.utcnow() gives after the reading `last`: a later one
utcnow(last) == {last + 1}

\* a dict stored before its created_at is written
NewEntryUnstamped(original_url, t0) ==
    [url |-> original_url, clicks |-> 0, created_at |-> <<>>]

\* a dict that starts with one click
NewEntryClicked(original_url, t0) ==
    [url |-> original_url, clicks |-> 1, created_at |-> isoformat(t0)]

\* the dict save_url builds
NewEntry(original_url, t0) ==
    [url |-> original_url, clicks |-> 0, created_at |-> isoformat(t0)]

\* save_url: the lock is taken, the clock read, the dict built and stored
\* under short_code
SaveStore(t) ==
    /\ th[t].pc = "save_url"
    /\ Acquire(t)
    /\ \E t0 \in utcnow(now) :
          /\ now' = t0
          /\ heap' = Append(heap, NewEntry(th[t].original_url, t0))
          /\ saved' = saved \cup {[obj |-> Len(heap) + 1, url |-> th[t].original_url,
                                   created_at |-> isoformat(t0)]}
    /\ urls' = [c \in DOMAIN urls \cup {th[t].short_code} |->
                   IF c = th[t].short_code THEN Len(heap) + 1 ELSE urls[c]]
    /\ hits' = Append(hits, 0)
    /\ lastWrite' = [kind |-> "save", obj |-> Len(heap) + 1,
                     code |-> th[t].short_code, url |-> th[t].original_url]
    /\ Continue(t, [th[t] EXCEPT !.pc = "save_unlock", !.target = Len(heap) + 1,
                                 !.wrote = TRUE])
    /\ UNCHANGED issued

\* save_url: the lock is released and the call returns; shorten_url answers
\* 201 with the short code
SaveRelease(t) ==
    /\ th[t].pc = "save_unlock"
    /\ Release(t)
    /\ IF th[t].req = "shorten"
       THEN /\ Respond(t, th[t], 201, "", NoBody, "None")
            /\ issued' = issued \cup {[code |-> th[t].short_code,
                                       url |-> th[t].original_url,
                                       obj |-> th[t].target]}
       ELSE /\ Respond(t, th[t], 0, "", NoBody, "None")
            /\ UNCHANGED issued
    /\ UNCHANGED <<urls, heap, now, hits, lastWrite, saved>>

\* self.urls.get(short_code): the dict itself, or None (0)
get_url(short_code) == IF short_code \in DOMAIN urls THEN urls[short_code] ELSE 0

\* short_code in self.urls
code_exists(short_code) == short_code \in DOMAIN urls

\* increment_clicks answering True whatever it found
IncResultTrue(found) == "True"

\* what increment_clicks returns
IncResult(found) == IF found THEN "True" ELSE "False"

\* what redirect_url answers once increment_clicks has returned
AfterIncrement(t, r, result) ==
    IF r.req = "redirect"
    THEN Respond(t, r, 302, "", [NoBody EXCEPT !.url = heap[r.url_data].url], result)
    ELSE Respond(t, r, 0, "", NoBody, result)

\* increment_clicks: the lock is taken and `short_code in self.urls` tested;
\* a known code's clicks is loaded; for an unknown code the lock is released
\* and False returned
IncLoad(t) ==
    /\ th[t].pc = "increment_clicks"
    /\ IF code_exists(th[t].short_code)
       THEN /\ Acquire(t)
            /\ Continue(t, [th[t] EXCEPT
                               !.pc = "inc_store",
                               !.target = urls[th[t].short_code],
                               !.clicks = heap[urls[th[t].short_code]].clicks])
       ELSE /\ lock = 0
            /\ UNCHANGED lock
            /\ AfterIncrement(t, th[t], IncResult(FALSE))
    /\ UNCHANGED <<urls, heap, now, hits, lastWrite, issued, saved>>

\* the value `+= 1` stores
Incremented(clicks) == clicks + 1

\* increment_clicks: `+= 1` stores into the dict it loaded from, the lock is
\* released and True returned; redirect_url ignores the result and redirects
\* to url_data['url']
IncStore(t) ==
    /\ th[t].pc = "inc_store"
    /\ heap' = [heap EXCEPT ![th[t].target].clicks = Incremented(th[t].clicks)]
    /\ lastWrite' = [kind |-> "increment", obj |-> th[t].target,
                     code |-> th[t].short_code, url |-> PyNone]
    /\ Release(t)
    /\ hits' = [hits EXCEPT ![th[t].target] = @ + 1]
    /\ AfterIncrement(t, [th[t] EXCEPT !.wrote = TRUE], IncResult(TRUE))
    /\ UNCHANGED <<urls, now, issued, saved>>

(* ------------------------------------------------------------------ *)
(* Request handlers                                                     *)
(* ------------------------------------------------------------------ *)

Seq6(a, b, c, d, e, f) == <<a, b, c, d, e, f>>

URL1 == PyStr(<<"h","t","t","p",":","/","/","a","b">>)
URL2 == PyStr(<<"F","T","P",":","/","/","x",".","y">>)

\* values of 'url' the tests expect to be refused
InvalidUrls ==
    { PyStr(<<>>),
      PyStr(<<"h","t","t","p",":","/","/">>),
      PyStr(<<"n","o","t","-","a","-","u","r","l">>),
      PyInt(5) }

\* request.get_json(): the JSON object of the request, a function of its keys
EmptyObject == [k \in {} |-> PyNone]
Object(k, v) == [x \in {k} |-> v]

ShortenInputs ==
    {EmptyObject, Object("link", URL1)} \cup
    {Object("url", v) : v \in InvalidUrls \cup {URL1, URL2}}

\* short codes of a wrong format
InvalidCodes ==
    { <<"a","b","c">>, Seq6("a","b","@","1","2","3") }

\* a well-formed code the generator is never seen to draw
UnknownCode == Seq6("x","y","z","1","2","3")

\* the <short_code> segments requested
CodeInputs == RandomCodes(default_length) \cup {UnknownCode} \cup InvalidCodes

\* the values of 'url' for which is_valid_url(original_url) holds
AcceptedUrls == {v \in InvalidUrls \cup {URL1, URL2} : is_valid_url(v)}

\* the segments for which validate_short_code(short_code) holds
WellFormedCodes == {c \in CodeInputs : validate_short_code(c)}

\* generate_short_code(existing_codes=existing_codes), worked out once for
\* every key set the store of the service can have: what the caller sees of
\* the outcomes, and the outcome that raises, if any
short_codes ==
    {LET outcomes == generate_short_code(default_length, SetOf(keys))
     IN  <<keys, Results(outcomes), {out \in outcomes : out.raised}>> :
        keys \in SUBSET RandomCodes(default_length)}

\* short_code = generate_short_code(existing_codes=set(url_store.urls.keys()))
ShortCodeFor(keys) == (CHOOSE p \in short_codes : p[1] = keys)[2]

\* the call of generate_short_code that raised, as the handler's `except`
\* finds it
ExceptionFor(keys) ==
    [length |-> default_length, existing_codes |-> SetOf(keys),
     out |-> CHOOSE out \in (CHOOSE p \in short_codes : p[1] = keys)[3] : TRUE]

\* an `except` clause that answers as if the request had succeeded
ExceptionAnswerCreated(r, keys) ==
    [Answer(r, 201, "", NoBody, "None") EXCEPT !.gen = ExceptionFor(keys)]

\* main.py:55-56  what the handler's `except Exception` answers
ExceptionAnswer(r, keys) ==
    [Answer(r, 500, "Internal server error", NoBody, "None")
     EXCEPT !.gen = ExceptionFor(keys)]

\* POST /api/shorten up to the call of save_url: the JSON body is read and
\* the URL validated; existing_codes = set(url_store.urls.keys()) is read
\* without the lock and generate_short_code called; an exception is answered
\* 500 by the handler's `except`
ShortenRequest(t) ==
    /\ th[t].pc = "idle"
    /\ \E data \in ShortenInputs :
          LET r == [Idle EXCEPT !.req = "shorten"]
          IN  IF DOMAIN data = {} \/ "url" \notin DOMAIN data
              THEN Respond(t, r, 400, "URL is required", NoBody, "None")
              ELSE LET r1 == [r EXCEPT !.original_url = data["url"]]
                   IN  IF data["url"] \notin AcceptedUrls
                       THEN Respond(t, r1, 400, "Invalid URL format", NoBody, "None")
                       ELSE /\ MayWrite
                            /\ \E out \in ShortCodeFor(DOMAIN urls) :
                                  IF out.raised
                                  THEN /\ th' = [th EXCEPT ![t] = Idle]
                                       /\ response' = ExceptionAnswer(r1, DOMAIN urls)
                                  ELSE Continue(t, [r1 EXCEPT !.pc = "save_url",
                                                              !.short_code = out.code])
    /\ UNCHANGED <<urls, heap, lock, now, hits, lastWrite, issued, saved>>

\* GET /<short_code> up to the call of increment_clicks: the format check,
\* url_data = url_store.get_url(short_code) and `if not url_data:`
RedirectRequest(t) ==
    /\ th[t].pc = "idle"
    /\ \E short_code \in CodeInputs :
          LET r == [Idle EXCEPT !.req = "redirect", !.short_code = short_code]
          IN  IF short_code \notin WellFormedCodes
              THEN Respond(t, r, 404, "Invalid short code format", NoBody, "None")
              ELSE IF get_url(short_code) = 0
              THEN Respond(t, r, 404, "Short code not found", NoBody, "None")
              ELSE /\ MayWrite
                   /\ Continue(t, [r EXCEPT !.pc = "increment_clicks",
                                            !.url_data = get_url(short_code),
                                            !.existed = code_exists(short_code)])
    /\ UNCHANGED <<urls, heap, lock, now, hits, lastWrite, issued, saved>>

\* GET /api/stats/<short_code> up to the answer: the format check,
\* url_data = url_store.get_url(short_code) and `if not url_data:`
StatsRequest(t) ==
    /\ th[t].pc = "idle"
    /\ \E short_code \in CodeInputs :
          LET r == [Idle EXCEPT !.req = "stats", !.short_code = short_code]
          IN  IF short_code \notin WellFormedCodes
              THEN Respond(t, r, 404, "Invalid short code format", NoBody, "None")
              ELSE IF get_url(short_code) = 0
              THEN Respond(t, r, 404, "Short code not found", NoBody, "None")
              ELSE Continue(t, [r EXCEPT !.pc = "stats_respond",
                                         !.url_data = get_url(short_code)])
    /\ UNCHANGED <<urls, heap, lock, now, hits, lastWrite, issued, saved>>

\* get_stats answers with the three fields of the dict it holds
StatsRespond(t) ==
    /\ th[t].pc = "stats_respond"
    /\ Respond(t, th[t], 200, "",
               [url |-> heap[th[t].url_data].url,
                clicks |-> heap[th[t].url_data].clicks,
                created_at |-> heap[th[t].url_data].created_at], "None")
    /\ UNCHANGED <<urls, heap, lock, now, hits, lastWrite, issued, saved>>

\* the service: concurrent shorten, redirect and stats requests
Next ==
    \E t \in Handlers :
        \/ ShortenRequest(t)
        \/ SaveStore(t)
        \/ SaveRelease(t)
        \/ RedirectRequest(t)
        \/ IncLoad(t)
        \/ IncStore(t)
        \/ StatsRequest(t)
        \/ StatsRespond(t)

Spec == Init /\ [][Next]_vars

(* ------------------------------------------------------------------ *)
(* The store's methods called directly by concurrent threads            *)
(* ------------------------------------------------------------------ *)

StoreCodes == RandomCodes(default_length)
StoreUrls == {URL1, URL2}

Bool(b) == IF b THEN "True" ELSE "False"

\* url_store.save_url(short_code, original_url) is called
CallSave(t) ==
    /\ th[t].pc = "idle"
    /\ MayWrite
    /\ \E short_code \in StoreCodes, original_url \in StoreUrls :
          Continue(t, [Idle EXCEPT !.pc = "save_url", !.req = "save_url",
                                   !.short_code = short_code,
                                   !.original_url = original_url,
                                   !.existed = code_exists(short_code)])
    /\ UNCHANGED <<urls, heap, lock, now, hits, lastWrite, issued, saved>>

\* url_store.increment_clicks(short_code) is called
CallIncrement(t) ==
    /\ th[t].pc = "idle"
    /\ MayWrite
    /\ \E short_code \in StoreCodes :
          Continue(t, [Idle EXCEPT !.pc = "increment_clicks",
                                   !.req = "increment_clicks",
                                   !.short_code = short_code,
                                   !.existed = code_exists(short_code)])
    /\ UNCHANGED <<urls, heap, lock, now, hits, lastWrite, issued, saved>>

\* what a caller reads in the dict get_url returned
Fields(url_data) ==
    IF url_data = 0
    THEN NoBody
    ELSE [url |-> heap[url_data].url, clicks |-> heap[url_data].clicks,
          created_at |-> heap[url_data].created_at]

\* a lookup that counts a click on the entry it finds
CallGetUrlCounting(t) ==
    /\ th[t].pc = "idle"
    /\ \E short_code \in StoreCodes :
          LET r == [Idle EXCEPT !.req = "get_url", !.short_code = short_code,
                                !.url_data = get_url(short_code),
                                !.existed = code_exists(short_code)]
          IN  /\ Respond(t, r, 0, "", Fields(r.url_data), "None")
              /\ heap' = IF r.url_data = 0
                         THEN heap
                         ELSE [heap EXCEPT ![r.url_data].clicks = @ + 1]
    /\ UNCHANGED <<urls, lock, now, hits, lastWrite, issued, saved>>

\* url_store.get_url(short_code) is called and returns, without the lock
CallGetUrl(t) ==
    /\ th[t].pc = "idle"
    /\ \E short_code \in StoreCodes :
          LET r == [Idle EXCEPT !.req = "get_url", !.short_code = short_code,
                                !.url_data = get_url(short_code),
                                !.existed = code_exists(short_code)]
          IN  Respond(t, r, 0, "", Fields(r.url_data), "None")
    /\ UNCHANGED <<urls, heap, lock, now, hits, lastWrite, issued, saved>>

\* url_store.code_exists(short_code) is called and returns, without the lock
CallCodeExists(t) ==
    /\ th[t].pc = "idle"
    /\ \E short_code \in StoreCodes :
          LET r == [Idle EXCEPT !.req = "code_exists", !.short_code = short_code]
          IN  Respond(t, r, 0, "", NoBody, Bool(code_exists(short_code)))
    /\ UNCHANGED <<urls, heap, lock, now, hits, lastWrite, issued, saved>>

NextStore ==
    \E t \in Threads :
        \/ CallSave(t)
        \/ SaveStore(t)
        \/ SaveRelease(t)
        \/ CallIncrement(t)
        \/ IncLoad(t)
        \/ IncStore(t)
        \/ CallGetUrl(t)
        \/ CallCodeExists(t)

SpecStore == Init /\ [][NextStore]_vars

\* fair scheduling of the store's callers: a thread that can go on does, and a
\* thread waiting for the lock gets it if the lock is free again and again
Fairness ==
    \A t \in Threads :
        /\ SF_vars(SaveStore(t))
        /\ WF_vars(SaveRelease(t))
        /\ SF_vars(IncLoad(t))
        /\ WF_vars(IncStore(t))

\* the calls explored under fairness: every save_url and increment_clicks is
\* for one code and one URL (all calls contend for the one lock whatever
\* their arguments)
OneCode ==
    \A t \in Threads :
        /\ th'[t].original_url \in {PyNone, URL1}
        /\ th'[t].short_code \in {<<>>, CHOOSE c \in StoreCodes : TRUE}

NextFair == NextStore /\ OneCode

FairStore == Init /\ [][NextFair]_vars /\ Fairness

\* the writes explored beside the reads: every save_url stores one URL
OneUrl == \A t \in Threads : th'[t].original_url \in {PyNone, URL1}

\* two threads that write the store and read it: by get_url, by code_exists
\* and by stats requests
NextRead ==
    \E t \in Handlers :
        \/ CallSave(t) /\ OneUrl
        \/ SaveStore(t)
        \/ SaveRelease(t)
        \/ CallIncrement(t)
        \/ IncLoad(t)
        \/ IncStore(t)
        \/ CallGetUrl(t)
        \/ CallCodeExists(t)
        \/ StatsRequest(t)
        \/ StatsRespond(t)

SpecRead == Init /\ [][NextRead]_vars

(* ------------------------------------------------------------------ *)
(* generate_short_code called on its own                                *)
(* ------------------------------------------------------------------ *)

\* the lengths asked for
GenLengths == {1, 2, default_length}

\* the exclusion sets passed: None, or any set of codes that can be drawn
\* and of one that cannot
GenSets(length) ==
    {NoneSet} \cup {SetOf(S) : S \in SUBSET (RandomCodes(length) \cup {UnknownCode})}

\* generate_short_code(length, existing_codes) is called, once, and returns
\* or raises
CallGenerate(t) ==
    /\ th[t].pc = "idle"
    /\ response = NoResponse
    /\ \E length \in GenLengths :
          \E existing_codes \in GenSets(length) :
             \E out \in generate_short_code(length, existing_codes) :
                response' = [NoResponse EXCEPT
                                !.req = "generate_short_code",
                                !.gen = [length |-> length,
                                         existing_codes |-> existing_codes,
                                         out |-> out]]
    /\ UNCHANGED <<urls, heap, lock, now, th, hits, lastWrite, issued, saved>>

NextGen == \E t \in Threads : CallGenerate(t)

SpecGen == Init /\ [][NextGen]_vars

(* ------------------------------------------------------------------ *)
(* The validators called on their own                                   *)
(* ------------------------------------------------------------------ *)

\* the strings over alphabet A of at most n characters
RECURSIVE StringsOver(_, _)
StringsOver(A, n) ==
    IF n = 0
    THEN {<<>>}
    ELSE LET S == StringsOver(A, n - 1)
         IN  S \cup {<<c>> \o w : c \in A, w \in {x \in S : Len(x) = n - 1}}

\* what is put before the rest of a URL: the three schemes in several
\* cases, and prefixes that are no scheme
UrlPrefixes ==
    { <<"h","t","t","p",":","/","/">>,
      <<"h","t","t","p","s",":","/","/">>,
      <<"f","t","p",":","/","/">>,
      <<"H","T","T","P",":","/","/">>,
      <<"h","T","t","P","s",":","/","/">>,
      <<"h","t","t","p","U+017F",":","/","/">>,
      <<"h","t","t","p",":","/">>,
      <<>> }

\* the characters the rest of a URL is made of
UrlChars == {"a", " ", "\n", "U+00A0", "/", "$", ".", "?", "#"}

\* surrounding whitespace
UrlPads == { <<>>, <<" ">>, <<"\n", "\t">> }

\* further values the tests pass
TestUrls ==
    { PyStr(<<"f","t","p",":","/","/">>),
      PyStr(<<"j","u","s","t"," ","s","o","m","e"," ","t","e","x","t">>),
      PyStr(<<"h","t","t","p","s",":","/","/","w","w","w",".","e","x","a","m",
              "p","l","e",".","c","o","m","/","t","e","s","t">>) }

\* the arguments is_valid_url is called with: a prefix, at most n further
\* characters and surrounding whitespace, and the values the tests pass
UrlInputs(n) ==
    {PyStr(l \o p \o w \o r) :
        l \in UrlPads, p \in UrlPrefixes, w \in StringsOver(UrlChars, n),
        r \in UrlPads}
    \cup InvalidUrls \cup TestUrls \cup {PyNone, PyInt(0), URL1, URL2}

\* is_valid_url(url) is called, once, and returns
CallIsValidUrl(t) ==
    /\ th[t].pc = "idle"
    /\ response = NoResponse
    /\ \E url \in UrlInputs(MaxTail) :
          response' = [NoResponse EXCEPT !.req = "is_valid_url",
                                         !.original_url = url,
                                         !.result = Bool(is_valid_url(url))]
    /\ UNCHANGED <<urls, heap, lock, now, th, hits, lastWrite, issued, saved>>

\* the characters short codes are made of
CodeChars == {"a", "Z", "9", "@", " ", "-", "U+00E9", "U+0663"}

\* a string of n characters "a", but for character c at position p
OneOff(n, p, c) == [i \in 1..n |-> IF i = p THEN c ELSE "a"]

\* the arguments validate_short_code is called with: strings of 1 to
\* code_length + MaxExtra characters differing from "aa...a" in one place,
\* the empty string, and the codes the tests pass
ShortCodeInputs ==
    {OneOff(n, p, c) : n \in 1..(code_length + MaxExtra), p \in 1..(code_length + MaxExtra),
                       c \in CodeChars}
    \cup {<<>>, <<"t","o","o","l","o","n","g","1","2","3">>}
    \cup CodeInputs

\* validate_short_code(short_code) is called, once, and returns
CallValidateShortCode(t) ==
    /\ th[t].pc = "idle"
    /\ response = NoResponse
    /\ \E short_code \in ShortCodeInputs :
          response' = [NoResponse EXCEPT !.req = "validate_short_code",
                                         !.short_code = short_code,
                                         !.result = Bool(validate_short_code(short_code))]
    /\ UNCHANGED <<urls, heap, lock, now, th, hits, lastWrite, issued, saved>>

NextValid ==
    \E t \in Threads :
        \/ CallIsValidUrl(t)
        \/ CallValidateShortCode(t)

SpecValid == Init /\ [][NextValid]_vars

(* ------------------------------------------------------------------ *)
(* Properties                                                           *)
(* ------------------------------------------------------------------ *)

\* C1: concurrent increment_clicks calls lose no update: every dict's clicks
\* equals the number of increment_clicks calls on it that returned True, and
\* a call on a code that was in the store when it was made returns True.
C1_NoLostIncrement ==
    /\ \A o \in 1..Len(heap) : heap[o].clicks = hits[o]
    /\ (response.req = "increment_clicks" /\ response.existed)
          => (response.result = "True" /\ response.wrote)

\* a call returns True while another call on the same code waits for the lock
C1_Witness ==
    /\ response.req = "increment_clicks"
    /\ response.result = "True"
    /\ response.existed
    /\ \E t \in Threads : /\ th[t].pc = "increment_clicks"
                          /\ th[t].short_code = response.short_code

\* C2: every shorten request answered 201 receives a short code different
\* from the code of every other request answered 201.
C2_UniqueCodes ==
    \A a, b \in issued : a # b => a.code # b.code

\* C3: once a code has an entry, the entry is never deleted and its url and
\* created_at never change.
C3_EntryImmutable ==
    [][\A c \in DOMAIN urls :
          /\ c \in DOMAIN urls'
          /\ heap'[urls'[c]].url = heap[urls[c]].url
          /\ heap'[urls'[c]].created_at = heap[urls[c]].created_at]_vars

\* C4: for every code, clicks is a non-negative integer that starts at 0 and
\* never decreases from one state of the store to the next.
C4_ClicksMonotone ==
    [][/\ \A c \in DOMAIN urls : c \in DOMAIN urls' /\
                                  heap'[urls'[c]].clicks >= heap[urls[c]].clicks
       /\ \A c \in DOMAIN urls' \ DOMAIN urls : heap'[urls'[c]].clicks = 0]_vars

\* C5: a code generate_short_code returns is not in the exclusion set passed,
\* has exactly `length` characters and only characters of the 62-character
\* alphabet.
C5_ReturnsUnusedCode ==
    (response.req = "generate_short_code" /\ ~response.gen.out.raised) =>
        LET g == response.gen
        IN  /\ g.existing_codes.isNone \/ g.out.code \notin g.existing_codes.codes
            /\ Len(g.out.code) = g.length
            /\ \A i \in 1..Len(g.out.code) : \E k \in 1..62 : chars[k] = g.out.code[i]

\* a code is returned although another candidate was in the exclusion set
C5_Witness ==
    /\ response.req = "generate_short_code"
    /\ ~response.gen.out.raised
    /\ response.gen.length = default_length
    /\ response.gen.out.collisions > 0
    /\ response.gen.existing_codes.codes # {}

\* C6: generate_short_code draws at most max_attempts (100) candidates; it
\* returns the first candidate not in the exclusion set, every candidate drawn
\* before it being in the set; it raises exactly when all 100 candidates drawn
\* were in the set.
C6_RetryBudget ==
    response.req = "generate_short_code" =>
        LET g == response.gen
        IN  /\ g.out.draws <= 100
            /\ g.out.raised <=> g.out.collisions = 100
            /\ g.out.raised => g.out.draws = 100
            /\ ~g.out.raised =>
                  /\ g.out.draws = g.out.collisions + 1
                  /\ g.existing_codes.isNone \/ g.out.code \notin g.existing_codes.codes
            /\ g.out.collisions > 0 =>
                  /\ ~g.existing_codes.isNone
                  /\ g.existing_codes.codes \cap RandomCodes(g.length) # {}

\* the exception is raised after 100 candidates, though a free code remained
C6_Witness ==
    /\ response.req = "generate_short_code"
    /\ response.gen.out.raised
    /\ response.gen.out.draws = 100
    /\ RandomCodes(response.gen.length) \ response.gen.existing_codes.codes # {}

\* C7: when the last write of the store is save_url(code, u), get_url(code)
\* is an entry with url = u and clicks = 0, and a stats request that looked the
\* code up after that save reports url = u and clicks = 0.
C7_SaveThenGet ==
    lastWrite.kind = "save" =>
        /\ get_url(lastWrite.code) = lastWrite.obj
        /\ heap[lastWrite.obj].url = lastWrite.url
        /\ heap[lastWrite.obj].clicks = 0
        /\ (response.req \in {"stats", "get_url"} /\ response.url_data = lastWrite.obj)
              => (response.body.url = lastWrite.url /\ response.body.clicks = 0)

\* a stats request is answered right after the shorten request that made the
\* entry
C7_Witness ==
    /\ lastWrite.kind = "save"
    /\ response.req = "stats"
    /\ response.status = 200
    /\ response.url_data = lastWrite.obj
    /\ response.body.url = URL2

\* C8: a redirect request for a code issued by a shorten request answers 302
\* with the URL submitted in that shorten request, and counts one click.
C8_RedirectsToSubmittedUrl ==
    (response.req = "redirect" /\ response.status = 302) =>
        /\ \A i \in issued : i.code = response.short_code => response.body.url = i.url
        /\ response.result = "True"

\* C9: increment_clicks on a code that is not in the store returns False,
\* creates no entry and changes no entry.
C9_IncrementAbsent ==
    response.req = "increment_clicks" =>
        /\ response.result = "False" <=> ~code_exists(response.short_code)
        /\ response.result = "False" =>
              /\ ~response.wrote
              /\ \A o \in 1..Len(heap) : heap[o].clicks = hits[o]

\* a call on an absent code returns while the store holds another entry
C9_Witness ==
    /\ response.req = "increment_clicks"
    /\ response.result = "False"
    /\ ~code_exists(response.short_code)
    /\ Len(heap) > 0

C11_RejectsEmbeddedWhitespace ==
    (response.req = "is_valid_url" /\ response.original_url.type = "str") =>
        LET s == strip(response.original_url.val)
        IN  (\/ response.original_url.val = <<>>
             \/ \E p \in Schemes : Len(s) = Len(p) /\ StartsWithIgnoreCase(s, p)
             \/ \E i \in 1..Len(s) : s[i] \in Whitespace)
            => response.result = "False"

C13_SixAsciiAlphanumerics ==
    response.req = "validate_short_code" =>
        (response.result = "True" <=>
            /\ Len(response.short_code) = 6
            /\ \A i \in 1..Len(response.short_code) :
                  \E k \in 1..62 : chars[k] = response.short_code[i])

\* C14: save_url and increment_clicks exclude each other: at most one thread
\* is inside the lock-guarded body of either, it is the thread that holds the
\* lock, and while a thread is between the load and the store of `+= 1` the
\* dict it loaded from is still the code's dict and still holds the value
\* loaded.
C14_MutualExclusion ==
    LET inside == {t \in Threads : th[t].pc \in {"save_unlock", "inc_store"}}
    IN  /\ Cardinality(inside) <= 1
        /\ \A t \in inside : lock = t
        /\ \A t \in Threads : th[t].pc = "inc_store" =>
              /\ urls[th[t].short_code] = th[t].target
              /\ heap[th[t].target].clicks = th[t].clicks

\* a thread is between the load and the store of `+= 1` while another has
\* called save_url for the same code
C14_Witness ==
    \E t, u \in Threads :
        /\ th[t].pc = "inc_store"
        /\ th[u].pc = "save_url"
        /\ th[u].short_code = th[t].short_code

\* C15: a lookup made without the lock, while save_url and increment_clicks
\* run, gives nothing or a complete entry: the url and created_at read from it
\* were written by one and the same save_url call, and the clicks read is a
\* value the entry has held.
C15_CompleteEntry ==
    (response.req \in {"stats", "get_url"} /\ response.url_data # 0) =>
        /\ response.body.url.type = "str"
        /\ response.body.created_at # <<>>
        /\ \E s \in saved :
              /\ s.obj = response.url_data
              /\ s.url = response.body.url
              /\ s.created_at = response.body.created_at
        /\ response.body.clicks \in 0..hits[response.url_data]

\* a stats request answers from the dict it looked up, which a later save_url
\* has replaced under the code and which has been clicked
C15_Witness ==
    /\ response.req = "stats"
    /\ response.status = 200
    /\ get_url(response.short_code) # response.url_data
    /\ response.body.clicks = 1

\* C16: under fair scheduling every call that has started returns, a lock
\* that is held is released, and while a call is in progress some thread can
\* take a step (no deadlock).
C16_CallsReturn ==
    /\ \A t \in Threads : (th[t].pc # "idle") ~> (th[t].pc = "idle")
    /\ (lock # 0) ~> (lock = 0)
    /\ []((\E t \in Threads : th[t].pc # "idle") =>
             \E t \in Threads :
                ENABLED (SaveStore(t) \/ SaveRelease(t) \/ IncLoad(t) \/ IncStore(t)))

\* a call waits for the lock while another thread is inside increment_clicks
C16_Witness ==
    \E t, u \in Threads :
        /\ t # u
        /\ lock = t
        /\ th[t].pc = "inc_store"
        /\ th[u].pc \in {"save_url", "increment_clicks"}

\* C17: reads change nothing: a step of get_url, of code_exists or of a stats
\* request leaves the key set and every entry's url, clicks and created_at as
\* they were, and two get_url(code) calls with no step between them return
\* the same dict with the same data.
C17_ReadsChangeNothing ==
    [][/\ (\/ response'.req \in {"get_url", "code_exists", "stats"}
           \/ \E t \in Threads : th[t].pc = "idle" /\ th'[t].pc = "stats_respond")
          => (urls' = urls /\ heap' = heap)
       /\ (/\ response.req = "get_url"
           /\ response'.req = "get_url"
           /\ response'.short_code = response.short_code)
          => (response'.url_data = response.url_data /\ response'.body = response.body)]_vars

\* get_url returns an entry that has been clicked while a stats request holds
\* a dict it has looked up
C17_Witness ==
    /\ response.req = "get_url"
    /\ response.url_data # 0
    /\ response.body.clicks = 1
    /\ \E t \in Threads : th[t].pc = "stats_respond"

\* C18: a shorten request whose generate_short_code raises is answered 500
\* and not 201, has not called save_url, leaves the store and the codes issued
\* as they were, and ends there: the 100 candidates of the one call are all
\* that was drawn.
C18_ExhaustionIsFatal ==
    /\ []((response.req = "shorten" /\ response.gen.length # 0 /\ response.gen.out.raised)
             => /\ response.status = 500
                /\ response.short_code = <<>>
                /\ ~response.wrote
                /\ response.gen.out.draws = 100)
    /\ [](response.status = 500
             => /\ response.req = "shorten"
                /\ response.gen.length # 0
                /\ response.gen.out.raised)
    /\ [][(response'.req = "shorten" /\ response'.gen.length # 0)
             => /\ urls' = urls
                /\ heap' = heap
                /\ saved' = saved
                /\ issued' = issued
                /\ lock' = lock
                /\ \A t \in Threads : th'[t] # th[t] => th'[t] = Idle]_vars

\* the exception is raised because every code that can be drawn is in use
C18_Witness ==
    /\ response.status = 500
    /\ response.gen.out.raised
    /\ DOMAIN urls = RandomCodes(default_length)
    /\ response.gen.existing_codes.codes = DOMAIN urls

\* C19: every key of the store is a code validate_short_code accepts, 6
\* characters of the alphanumeric alphabet, and so is every code a shorten
\* request has returned: no redirect or stats request for such a code is
\* answered 404 for its format.
C19_KeysAreWellFormed ==
    /\ \A c \in DOMAIN urls \cup {i.code : i \in issued} :
          /\ validate_short_code(c)
          /\ Len(c) = 6
          /\ \A k \in 1..Len(c) : \E j \in 1..62 : chars[j] = c[k]
    /\ (response.req \in {"redirect", "stats"} /\
        response.error = "Invalid short code format")
          => response.short_code \notin DOMAIN urls \cup {i.code : i \in issued}

\* a redirect of a code a shorten request returned gets past the format check
C19_Witness ==
    /\ response.req = "redirect"
    /\ response.status = 302
    /\ \E i \in issued : i.code = response.short_code
    /\ Cardinality(DOMAIN urls) = NumChoices

\* C20: whenever the lookup of a redirect request found an entry, the
\* increment_clicks that follows returns True, the 302 is matched by one click
\* counted by that request, and the click is counted on an entry whose url is
\* the location the redirect is sent to.
C20_ClickMatchesLocation ==
    (response.req = "redirect" /\ response.status = 302) =>
        /\ response.result = "True"
        /\ response.wrote
        /\ heap[response.target].url = response.body.url

====
